---- MODULE Spec2Model ----
(***************************************************************************)
(* Layout engine of cairo-symbol (src/cairo-symbol.cc): Pin, Section and   *)
(* Symbol compute their geometry from text measurements and drive a cairo  *)
(* context.  Lengths are fixed-point numbers, four units to the pixel, so  *)
(* that the half-pixel text metrics, the halvings and the double -> int    *)
(* conversions of the source are all exact in the integers.                *)
(***************************************************************************)
EXTENDS Integers, Sequences, FiniteSets, TLC

VARIABLES
    font,       \* text metrics of the font in use (Cairo::TextExtents source)
    name,       \* Symbol::name
    pins,       \* Section::pins of the Section being populated
    sections,   \* Symbol::sections, each Section given by its pins
    ctx,        \* the Cairo::Context: graphics state, save stack, path, output
    call        \* the last call made on the model and its arguments/result

vars == <<font, name, pins, sections, ctx, call>>

----------------------------------------------------------------------------
(* Numbers *)

\* a double holding n pixels
Px(n) == 4 * n

\* conversion double -> int: truncation toward zero
Trunc(v) == IF v >= 0 THEN Px(v \div Px(1)) ELSE 0 - Px((0 - v) \div Px(1))

\* v / 2 on doubles (v is a whole number of half-pixels, the quotient is exact)
Half(v) == v \div 2

kStemLength == Px(15)
kWireStemWidth == Px(1)
kBusStemWidth == Px(2)
kTextPadding == Px(5)
kTextSeparator == Px(10)
kTopBottomPadding == Px(10)
kPinSpacing == Px(5)
kNameSpacing == Px(5)

\* enum PinDirection (IN is a reserved word of TLA+)
PinIN == "IN"
PinOUT == "OUT"
PinINOUT == "INOUT"
PinDirection == {PinIN, PinOUT, PinINOUT}

----------------------------------------------------------------------------
(* Bounds and input sets *)

\* most pins added to the Section being populated
MaxPins == 4
\* most sections added to the Symbol
MaxSections == 2

\* metrics in units: a 5.5px-advance font with 8.5px high text, and a tiny
\* font whose text is less than one pixel high
Fonts == { [advance |-> 22, height |-> 34, y_bearing |-> 0 - 30],
           [advance |-> 6, height |-> 2, y_bearing |-> 0 - 2] }

Pin(_name, _direction, _is_bus, _type) ==
    [name |-> _name, direction |-> _direction, is_bus |-> _is_bus, type |-> _type]

\* the signals of main() in both widths, each in every direction
Pins == { Pin("i_foo", d, TRUE, "logic [15:0]") : d \in PinDirection }
        \cup { Pin("o", d, FALSE, "") : d \in PinDirection }

\* the sections handed to Symbol::addSection: none of the pins, the section
\* of main(), one bidirectional pin, and a section with a narrower inside
\* and a wider outside than the section of main()
SectionInputs ==
    { <<>>,
      << Pin("i_foo", PinIN, TRUE, "logic [15:0]"), Pin("o_bar", PinOUT, FALSE, "logic"),
         Pin("i_foobar", PinIN, FALSE, "logic"), Pin("i_barfoo", PinIN, TRUE, "logic [15:0]") >>,
      << Pin("o", PinINOUT, FALSE, "") >>,
      << Pin("o_q", PinOUT, TRUE, "logic [31:0][7:0]"), Pin("io_d", PinINOUT, FALSE, "wire") >> }

SymbolNames == { "", "My symbol" }

Rectangle(_x, _y, _width, _height) ==
    [x |-> _x, y |-> _y, width |-> _width, height |-> _height]

\* anchors handed to Pin::draw, rectangles handed to Section::draw
Anchors == { Rectangle(Px(40), Px(30), 0, 0), Rectangle(Px(120), Px(55), 0, 0) }
Rects == { Rectangle(Px(100), Px(20), Px(80), Px(90)),
           Rectangle(Px(62), Px(13), Px(45), Px(40)) }

----------------------------------------------------------------------------
(* Cairo: text measurement and the drawing context *)

TextExtents(str) ==
    IF str = ""
    THEN [width |-> 0, height |-> 0, y_bearing |-> 0]
    ELSE [width |-> Len(str) * font.advance,
          height |-> font.height,
          y_bearing |-> font.y_bearing]

NoPoint == <<>>
Black == <<0, 0, 0>>
Blue == <<0, 0, 10>>
\* set_source_rgb(0.5, 0.5, 0.5), channels in tenths
Grey == <<5, 5, 5>>

Context(_color, _line_width, _saved) ==
    [color |-> _color, line_width |-> _line_width, saved |-> _saved,
     point |-> NoPoint, path |-> <<>>, ops |-> <<>>, status |-> "SUCCESS"]

\* a context in an error status ignores every call; cairomm throws, and
\* nothing more is drawn
Ok(c) == c.status = "SUCCESS"

GState(c) == [color |-> c.color, line_width |-> c.line_width]

\* the context main() hands to Symbol::draw: cairo defaults, one save made
MainContext == Context(Black, Px(2), << [color |-> Black, line_width |-> Px(2)] >>)

\* that context, and one whose caller has chosen another colour and line width
Contexts == { MainContext, Context(Blue, Px(3), <<>>) }

Save(c) == IF ~Ok(c) THEN c ELSE [c EXCEPT !.saved = Append(@, GState(c))]

Restore(c) ==
    IF ~Ok(c) THEN c
    ELSE IF c.saved = <<>> THEN [c EXCEPT !.status = "INVALID_RESTORE"]
    ELSE LET g == c.saved[Len(c.saved)]
         IN  [c EXCEPT !.color = g.color, !.line_width = g.line_width,
                       !.saved = SubSeq(@, 1, Len(@) - 1)]

SetLineWidth(c, w) == [c EXCEPT !.line_width = w]
SetSourceRgb(c, rgb) == [c EXCEPT !.color = rgb]

MoveTo(c, x, y) == [c EXCEPT !.point = <<x, y>>]

CurrentPoint(c) == IF c.point = NoPoint THEN <<0, 0>> ELSE c.point

RelMoveTo(c, dx, dy) ==
    [c EXCEPT !.point = <<CurrentPoint(c)[1] + dx, CurrentPoint(c)[2] + dy>>]

LineTo(c, x, y) ==
    [c EXCEPT !.path = Append(@, [kind |-> "line", a |-> CurrentPoint(c), b |-> <<x, y>>]),
              !.point = <<x, y>>]

AddRectangle(c, x, y, w, h) ==
    [c EXCEPT !.path = Append(@, [kind |-> "rect", a |-> <<x, y>>, b |-> <<w, h>>]),
              !.point = <<x, y>>]

ClosePath(c) ==
    IF c.point = NoPoint THEN c
    ELSE [c EXCEPT !.path = Append(@, [kind |-> "close", a |-> c.point, b |-> c.point])]

\* stroke(): paints the path with the current colour and line width and
\* clears it; tag names the statement of the source that painted
Stroke(c, tag) ==
    IF ~Ok(c) THEN c ELSE
    [c EXCEPT !.ops = Append(@, [tag |-> tag, kind |-> "stroke", color |-> c.color,
                                 line_width |-> c.line_width, path |-> c.path,
                                 str |-> "", at |-> NoPoint]),
              !.path = <<>>, !.point = NoPoint]

\* show_text(): paints str from the current point rightwards in the current
\* colour and leaves the current point after the text
ShowText(c, str, tag) ==
    IF ~Ok(c) THEN c ELSE
    [c EXCEPT !.ops = Append(@, [tag |-> tag, kind |-> "text", color |-> c.color,
                                 line_width |-> c.line_width, path |-> <<>>,
                                 str |-> str, at |-> CurrentPoint(c)]),
              !.point = <<CurrentPoint(c)[1] + TextExtents(str).width,
                          CurrentPoint(c)[2]>>]

\* drawRTLText without the move back by the width of the text
drawRTLText_NoMoveBack(c, str, tag) == ShowText(c, str, tag)

drawRTLText(c, str, tag) ==
    ShowText(RelMoveTo(c, 0 - TextExtents(str).width, 0), str, tag)

----------------------------------------------------------------------------
(* class Pin *)

\* "Draw pin name"
PinDrawName(c, pin, pos) ==
    LET c1 == Save(c)
        c2 == IF pin.direction = PinIN
              THEN ShowText(MoveTo(c1, pos.x + kTextPadding, pos.y), pin.name, "name")
              ELSE drawRTLText(MoveTo(c1, pos.x - kTextPadding, pos.y), pin.name, "name")
    IN  Restore(ClosePath(c2))

\* "Draw pin stem"
PinDrawStem(c, pin, pos) ==
    LET extents == TextExtents(pin.name)
        c1 == SetLineWidth(Save(c), IF pin.is_bus THEN kBusStemWidth ELSE kWireStemWidth)
        c2 == MoveTo(c1, pos.x, pos.y + Half(extents.y_bearing))
        c3 == IF pin.direction = PinIN
              THEN LineTo(c2, pos.x - kStemLength, pos.y + Half(extents.y_bearing))
              ELSE LineTo(c2, pos.x + kStemLength, pos.y + Half(extents.y_bearing))
    IN  Restore(Stroke(c3, "stem"))

\* "Draw pin type" without its restore()
PinDrawType_NoRestore(c, pin, pos) ==
    LET c1 == SetSourceRgb(Save(c), Grey)
    IN  IF pin.direction = PinIN
        THEN drawRTLText(MoveTo(c1, pos.x - kTextPadding - kStemLength, pos.y),
                         pin.type, "type")
        ELSE ShowText(MoveTo(c1, pos.x + kTextPadding + kStemLength, pos.y),
                      pin.type, "type")

\* "Draw pin type"
PinDrawType(c, pin, pos) ==
    LET c1 == SetSourceRgb(Save(c), Grey)
        c2 == IF pin.direction = PinIN
              THEN drawRTLText(MoveTo(c1, pos.x - kTextPadding - kStemLength, pos.y),
                               pin.type, "type")
              ELSE ShowText(MoveTo(c1, pos.x + kTextPadding + kStemLength, pos.y),
                            pin.type, "type")
    IN  Restore(c2)

PinDraw(c, pin, pos) ==
    Restore(PinDrawType(PinDrawStem(PinDrawName(Save(c), pin, pos), pin, pos), pin, pos))

PinInnerWidth(pin) == Trunc(kTextPadding + TextExtents(pin.name).width)

PinOuterWidth(pin) == Trunc(kStemLength + kTextPadding + TextExtents(pin.type).width)

PinHeight == Trunc(TextExtents("Hello world").height)

----------------------------------------------------------------------------
(* class Section; a Section is the sequence of its pins *)

RECURSIVE RowsLoop(_, _, _)
RowsLoop(ps, left_rows, right_rows) ==
    IF ps = <<>>
    THEN IF left_rows > right_rows THEN left_rows ELSE right_rows
    ELSE IF Head(ps).direction = PinIN
         THEN RowsLoop(Tail(ps), left_rows + 1, right_rows)
         ELSE RowsLoop(Tail(ps), left_rows, right_rows + 1)

SectionRows(section) == RowsLoop(section, 0, 0)

\* height() with one spacing per row
SectionHeight_SpacingPerRow(section) ==
    Trunc(kPinSpacing * SectionRows(section)
          + SectionRows(section) * PinHeight + 2 * kTopBottomPadding)

\* height() with the rows subtracted
SectionHeight_RowsSubtracted(section) ==
    Trunc(kPinSpacing * (SectionRows(section) - 1)
          - SectionRows(section) * PinHeight + 2 * kTopBottomPadding)

\* height() without the top and bottom padding
SectionHeight_NoPadding(section) ==
    Trunc(kPinSpacing * (SectionRows(section) - 1)
          + SectionRows(section) * PinHeight)

SectionHeight(section) ==
    Trunc(kPinSpacing * (SectionRows(section) - 1)
          + SectionRows(section) * PinHeight + 2 * kTopBottomPadding)

\* minInnerWidth() counting every pin that is not IN on the right
RECURSIVE MinInnerWidthLoop_NotIn(_, _, _)
MinInnerWidthLoop_NotIn(ps, leftInnerWidth, rightInnerWidth) ==
    IF ps = <<>>
    THEN Trunc(leftInnerWidth + kTextSeparator + rightInnerWidth)
    ELSE LET pin == Head(ps)
         IN  IF PinInnerWidth(pin) > leftInnerWidth /\ pin.direction = PinIN
             THEN MinInnerWidthLoop_NotIn(Tail(ps), PinInnerWidth(pin), rightInnerWidth)
             ELSE IF PinInnerWidth(pin) > rightInnerWidth /\ pin.direction # PinIN
             THEN MinInnerWidthLoop_NotIn(Tail(ps), leftInnerWidth, PinInnerWidth(pin))
             ELSE MinInnerWidthLoop_NotIn(Tail(ps), leftInnerWidth, rightInnerWidth)

RECURSIVE MinInnerWidthLoop(_, _, _)
MinInnerWidthLoop(ps, leftInnerWidth, rightInnerWidth) ==
    IF ps = <<>>
    THEN Trunc(leftInnerWidth + kTextSeparator + rightInnerWidth)
    ELSE LET pin == Head(ps)
         IN  IF PinInnerWidth(pin) > leftInnerWidth /\ pin.direction = PinIN
             THEN MinInnerWidthLoop(Tail(ps), PinInnerWidth(pin), rightInnerWidth)
             ELSE IF PinInnerWidth(pin) > rightInnerWidth /\ pin.direction = PinOUT
             THEN MinInnerWidthLoop(Tail(ps), leftInnerWidth, PinInnerWidth(pin))
             ELSE MinInnerWidthLoop(Tail(ps), leftInnerWidth, rightInnerWidth)

SectionMinInnerWidth(section) == MinInnerWidthLoop(section, 0, 0)

RECURSIVE MinOuterWidthLoop(_, _)
MinOuterWidthLoop(ps, minOuterWidth) ==
    IF ps = <<>> THEN minOuterWidth
    ELSE IF PinOuterWidth(Head(ps)) > minOuterWidth
         THEN MinOuterWidthLoop(Tail(ps), PinOuterWidth(Head(ps)))
         ELSE MinOuterWidthLoop(Tail(ps), minOuterWidth)

SectionMinOuterWidth(section) == MinOuterWidthLoop(section, 0)

\* the copy_if calls
LeftPins(section) == SelectSeq(section, LAMBDA pin: pin.direction = PinIN)

\* the second copy_if keeping the OUT pins only
RightPins_OutOnly(section) == SelectSeq(section, LAMBDA pin: pin.direction = PinOUT)
RightPins(section) == SelectSeq(section, LAMBDA pin: pin.direction # PinIN)

\* the anchor of a pin with the spacing added before the draw
PinAnchorY_SpacingFirst(y) == y + PinHeight + kPinSpacing

\* y of the anchor of a pin, from pin_rect.y as the loop body finds it
PinAnchorY(y) == y + PinHeight

\* one of the two loops over a column; pin_rect = (x, y) on entry
RECURSIVE DrawColumn(_, _, _, _)
DrawColumn(c, column, x, y) ==
    IF column = <<>> \/ ~Ok(c) THEN c
    ELSE DrawColumn(PinDraw(c, Head(column), Rectangle(x, PinAnchorY(y), 0, 0)),
                    Tail(column), x, PinAnchorY(y) + kPinSpacing)

SectionDraw(c, section, pos) ==
    LET c1 == Stroke(AddRectangle(Save(c), pos.x, pos.y, pos.width, pos.height), "rect")
        c2 == DrawColumn(c1, LeftPins(section), pos.x, pos.y + kTopBottomPadding)
        c3 == DrawColumn(c2, RightPins(section), pos.x + pos.width,
                         pos.y + kTopBottomPadding)
    IN  Restore(c3)

----------------------------------------------------------------------------
(* class Symbol *)

RECURSIVE SymbolInnerWidth(_, _)
SymbolInnerWidth(ss, innerWidth) ==
    IF ss = <<>> THEN innerWidth
    ELSE IF SectionMinInnerWidth(Head(ss)) > innerWidth
         THEN SymbolInnerWidth(Tail(ss), SectionMinInnerWidth(Head(ss)))
         ELSE SymbolInnerWidth(Tail(ss), innerWidth)

RECURSIVE SymbolOuterWidth(_, _)
SymbolOuterWidth(ss, outerWidth) ==
    IF ss = <<>> THEN outerWidth
    ELSE IF SectionMinOuterWidth(Head(ss)) > outerWidth
         THEN SymbolOuterWidth(Tail(ss), SectionMinOuterWidth(Head(ss)))
         ELSE SymbolOuterWidth(Tail(ss), outerWidth)

\* the rectangle r from the section's own widths
SectionRect_OwnWidths(section, innerWidth, outerWidth, extents) ==
    Rectangle(SectionMinOuterWidth(section), extents.height + kNameSpacing,
              SectionMinInnerWidth(section), SectionHeight(section))

\* the rectangle r of the loop over the sections
SectionRect(section, innerWidth, outerWidth, extents) ==
    Rectangle(outerWidth, extents.height + kNameSpacing, innerWidth,
              SectionHeight(section))

RECURSIVE DrawSections(_, _, _, _, _)
DrawSections(c, ss, innerWidth, outerWidth, extents) ==
    IF ss = <<>> \/ ~Ok(c) THEN c
    ELSE DrawSections(
             SectionDraw(c, Head(ss), SectionRect(Head(ss), innerWidth, outerWidth, extents)),
             Tail(ss), innerWidth, outerWidth, extents)

SymbolDraw(c, ss, nm) ==
    LET innerWidth == SymbolInnerWidth(ss, 0)
        outerWidth == SymbolOuterWidth(ss, 0)
        extents == TextExtents(nm)
        c1 == MoveTo(Save(c), outerWidth + Half(innerWidth - extents.width),
                     extents.height)
        c2 == Restore(ShowText(c1, nm, "symbol"))
    IN  DrawSections(c2, ss, innerWidth, outerWidth, extents)

----------------------------------------------------------------------------
(* The calls: a Section or a Symbol is populated, measured and drawn on a  *)
(* blank page, as main() does                                              *)

Call(_op, _arg, _pos, _ret) == [op |-> _op, arg |-> _arg, pos |-> _pos, ret |-> _ret]

NoCall == Call("none", <<>>, <<>>, 0)

Blank == ctx.ops = <<>>

Range(s) == { s[i] : i \in 1..Len(s) }

AddPin(pin) ==
    /\ Blank
    /\ Len(pins) < MaxPins
    /\ pins' = Append(pins, pin)
    /\ call' = Call("Section.addPin", pin, <<>>, 0)
    /\ UNCHANGED <<font, name, sections, ctx>>

Height ==
    /\ Blank
    /\ call' = Call("Section.height", pins, <<>>, SectionHeight(pins))
    /\ UNCHANGED <<font, name, pins, sections, ctx>>

MinInnerWidth ==
    /\ Blank
    /\ call' = Call("Section.minInnerWidth", pins, <<>>, SectionMinInnerWidth(pins))
    /\ UNCHANGED <<font, name, pins, sections, ctx>>

AddSection(section) ==
    /\ Blank
    /\ Len(sections) < MaxSections
    /\ sections' = Append(sections, section)
    /\ call' = Call("Symbol.addSection", section, <<>>, 0)
    /\ UNCHANGED <<font, name, pins, ctx>>

DrawPin(pin, pos) ==
    /\ Blank
    /\ ctx' = PinDraw(ctx, pin, pos)
    /\ call' = Call("Pin.draw", pin, pos, 0)
    /\ UNCHANGED <<font, name, pins, sections>>

DrawSection(section, pos) ==
    /\ Blank
    /\ ctx' = SectionDraw(ctx, section, pos)
    /\ call' = Call("Section.draw", section, pos, 0)
    /\ UNCHANGED <<font, name, pins, sections>>

DrawSymbol ==
    /\ Blank
    /\ ctx' = SymbolDraw(ctx, sections, name)
    /\ call' = Call("Symbol.draw", sections, <<>>, 0)
    /\ UNCHANGED <<font, name, pins, sections>>

\* a Symbol is given sections and drawn; its sections and their pins can be
\* drawn on their own
Init ==
    /\ font \in Fonts
    /\ name \in SymbolNames
    /\ pins = <<>>
    /\ sections = <<>>
    /\ ctx \in Contexts
    /\ call = NoCall

Next ==
    \/ \E section \in SectionInputs : AddSection(section)
    \/ DrawSymbol
    \/ \E section \in Range(sections), pos \in Rects : DrawSection(section, pos)
    \/ \E section \in Range(sections) : \E pin \in Range(section), pos \in Anchors :
           DrawPin(pin, pos)

Spec == Init /\ [][Next]_vars

\* a Section is given pins, measured and drawn; its pins can be drawn on
\* their own
InitSection ==
    /\ font \in Fonts
    /\ name = ""
    /\ pins = <<>>
    /\ sections = <<>>
    /\ ctx = MainContext
    /\ call = NoCall

NextSection ==
    \/ \E pin \in Pins : AddPin(pin)
    \/ Height
    \/ MinInnerWidth
    \/ \E pos \in Rects : DrawSection(pins, pos)
    \/ \E pin \in Range(pins), pos \in Anchors : DrawPin(pin, pos)

SpecSection == InitSection /\ [][NextSection]_vars

----------------------------------------------------------------------------
(* What was painted, read back from the output of the context *)

Painted(tag) == SelectSeq(ctx.ops, LAMBDA o : o.tag = tag)

\* the rectangle, or the line, of a stroked path
Element(o, kind) == CHOOSE e \in Range(o.path) : e.kind = kind

MaxOf(S) == CHOOSE m \in S : \A v \in S : v <= m

Indices(section, directions) ==
    { i \in 1..Len(section) : section[i].direction \in directions }

\* the k-th pin of a section among those of the given directions
Nth(section, directions, k) ==
    section[CHOOSE i \in Indices(section, directions) :
                Cardinality({ j \in Indices(section, directions) : j <= i }) = k]

\* the k-th pin that was painted: its texts, the width and the line of its stem
PaintedPin(k) ==
    [name |-> Painted("name")[k], stem |-> Painted("stem")[k],
     line |-> Element(Painted("stem")[k], "line"), type |-> Painted("type")[k]]

\* the k-th painted pin shows the texts and the stem width of pin
Shows(k, pin) ==
    /\ PaintedPin(k).name.str = pin.name
    /\ PaintedPin(k).type.str = pin.type
    /\ PaintedPin(k).stem.line_width = (IF pin.is_bus THEN kBusStemWidth ELSE kWireStemWidth)

----------------------------------------------------------------------------
(* Claims *)

\* C1: Symbol.draw stacks the sections vertically in insertion order: the
\* first rectangle's top is the measured height of the name plus
\* nameSpacing, every later rectangle's top is the previous rectangle's top
\* plus the previous section's height().
C1_SectionsStacked ==
    call.op = "Symbol.draw" =>
        LET rects == Painted("rect")
        IN  /\ Len(rects) = Len(sections)
            /\ \A i \in 1..Len(rects) :
                   Element(rects[i], "rect").a[2] =
                       IF i = 1 THEN TextExtents(name).height + kNameSpacing
                       ELSE Element(rects[i - 1], "rect").a[2]
                            + SectionHeight(sections[i - 1])

\* C2: within one Symbol.draw every section's rectangle has x = the maximum
\* of minOuterWidth() over the sections and width = the maximum of
\* minInnerWidth() over the sections.
C2_SectionsAligned ==
    call.op = "Symbol.draw" =>
        LET rects == Painted("rect")
            outer == MaxOf({ SectionMinOuterWidth(sc) : sc \in Range(sections) } \cup {0})
            inner == MaxOf({ SectionMinInnerWidth(sc) : sc \in Range(sections) } \cup {0})
        IN  /\ Len(rects) = Len(sections)
            /\ \A i \in 1..Len(rects) :
                   /\ Element(rects[i], "rect").a[1] = outer
                   /\ Element(rects[i], "rect").b[1] = inner

C2_Witness ==
    /\ call.op = "Symbol.draw"
    /\ \E i, j \in 1..Len(sections) :
           /\ SectionMinInnerWidth(sections[i]) > SectionMinInnerWidth(sections[j])
           /\ SectionMinOuterWidth(sections[i]) < SectionMinOuterWidth(sections[j])

\* C3: Section.draw paints exactly the IN pins, in the order addPin
\* appended them, with their stems starting at x = rect.x, and then exactly
\* the OUT and INOUT pins, in the order addPin appended them, with their
\* stems starting at x = rect.x + rect.width.
C3_StablePartition ==
    call.op = "Section.draw" =>
        LET section == call.arg
            nleft == Cardinality(Indices(section, {PinIN}))
            nright == Cardinality(Indices(section, {PinOUT, PinINOUT}))
        IN  /\ Len(Painted("name")) = Len(section)
            /\ Len(Painted("stem")) = Len(section)
            /\ Len(Painted("type")) = Len(section)
            /\ \A k \in 1..nleft :
                   /\ Shows(k, Nth(section, {PinIN}, k))
                   /\ PaintedPin(k).line.a[1] = call.pos.x
            /\ \A k \in 1..nright :
                   /\ Shows(nleft + k, Nth(section, {PinOUT, PinINOUT}, k))
                   /\ PaintedPin(nleft + k).line.a[1] = call.pos.x + call.pos.width

C3_Witness ==
    /\ call.op = "Section.draw"
    /\ Len(call.arg) = 4
    /\ call.arg[1].direction = PinIN /\ call.arg[2].direction = PinOUT
    /\ call.arg[3].direction = PinIN /\ call.arg[4].direction = PinINOUT
    /\ call.arg[1].name # call.arg[3].name
    /\ call.arg[2].name # call.arg[4].name

\* C4: for a Section with at least one pin, rows() is the larger of the
\* number of IN pins and the number of other pins, and height() =
\* pinSpacing*(rows()-1) + rows()*Pin.height() + 2*topBottomPadding.
C4_RowsAndHeight ==
    (call.op = "Section.height" /\ call.arg # <<>>) =>
        LET rows == MaxOf({ Cardinality(Indices(call.arg, {PinIN})),
                            Cardinality(Indices(call.arg, {PinOUT, PinINOUT})) })
        IN  /\ SectionRows(call.arg) = rows
            /\ call.ret = kPinSpacing * (rows - 1) + rows * PinHeight
                          + 2 * kTopBottomPadding

C4_Witness ==
    /\ call.op = "Section.height"
    /\ Cardinality(Indices(call.arg, {PinIN})) = 3
    /\ Cardinality(Indices(call.arg, {PinOUT})) = 1
    /\ Len(call.arg) = 4
    /\ call.ret = 2 * kPinSpacing + 3 * PinHeight + 2 * kTopBottomPadding

Permuted(section, perm) == [i \in 1..Len(section) |-> section[perm[i]]]

\* C5: appending a pin never lowers height(), from the empty Section on,
\* and a Section that received the same pins in another order has the same
\* height().
C5_HeightMonotoneAndOrderFree ==
    /\ [][pins' # pins => SectionHeight(pins') >= SectionHeight(pins)]_vars
    /\ [](call.op = "Section.height" =>
            \A perm \in Permutations(1..Len(call.arg)) :
                SectionHeight(Permuted(call.arg, perm)) = call.ret)

C5_Witness ==
    /\ call.op = "Section.height"
    /\ Len(call.arg) = 3
    /\ call.arg[1].direction = PinIN
    /\ call.arg[2].direction = PinOUT
    /\ call.arg[3].direction = PinIN
    /\ call.ret > SectionHeight(SubSeq(call.arg, 1, 2))

\* C6: the height() of a Section with no pins is not negative.
C6_EmptyHeightNotNegative ==
    (call.op = "Section.height" /\ call.arg = <<>>) => call.ret >= 0

C6_Witness ==
    /\ call.op = "Section.height"
    /\ call.arg = <<>>
    /\ PinHeight = 0

\* C7: every draw leaves the save/restore depth, the source colour and the
\* line width of the context as it found them, and nothing but a stem is
\* painted with a stem's line width and nothing but a type label in the
\* muted colour: names, stems, section rectangles and the symbol name are
\* painted in the colour, and names, type labels, rectangles and the symbol
\* name with the line width, that the context had on entry.
C7_DrawingStateScoped ==
    /\ [][/\ Ok(ctx')
          /\ ctx'.saved = ctx.saved
          /\ ctx'.color = ctx.color
          /\ ctx'.line_width = ctx.line_width]_vars
    /\ [](\A i \in 1..Len(ctx.ops) :
            /\ ctx.ops[i].tag # "type" => ctx.ops[i].color = ctx.color
            /\ ctx.ops[i].tag # "stem" => ctx.ops[i].line_width = ctx.line_width)

C7_Witness ==
    /\ call.op = "Symbol.draw"
    /\ Len(sections) = 2
    /\ Len(sections[1]) = 4
    /\ sections[1][1].is_bus
    /\ Len(sections[2]) > 0
    /\ ctx.line_width # kBusStemWidth
    /\ name # ""
    /\ Len(ctx.ops) = 3 * (Len(sections[1]) + Len(sections[2])) + 3

\* C8: Pin.draw at an anchor paints, for IN, the name over
\* [x + textPadding, x + textPadding + w_name], the stem from x to
\* x - stemLength and the type over [x - textPadding - stemLength - w_type,
\* x - textPadding - stemLength]; for OUT and INOUT the mirror image about
\* x: the name over [x - textPadding - w_name, x - textPadding], the stem
\* from x to x + stemLength, the type over [x + textPadding + stemLength,
\* x + textPadding + stemLength + w_type]; the y coordinates do not depend
\* on the direction.
C8_MirroredLayout ==
    call.op = "Pin.draw" =>
        LET pin == call.arg
            x == call.pos.x
            y == call.pos.y
            w_name == TextExtents(pin.name).width
            w_type == TextExtents(pin.type).width
            stem_y == y + Half(TextExtents(pin.name).y_bearing)
            p == PaintedPin(1)
            \* +1 for IN, -1 for its mirror image
            side == IF pin.direction = PinIN THEN 1 ELSE 0 - 1
            \* the interval [lo, hi] as painted, left edge first
            Interval(lo, hi) == IF lo <= hi THEN <<lo, hi>> ELSE <<hi, lo>>
        IN  /\ Len(ctx.ops) = 3
            /\ p.name.at[2] = y /\ p.type.at[2] = y
            /\ <<p.name.at[1], p.name.at[1] + w_name>> =
                   Interval(x + side * kTextPadding, x + side * (kTextPadding + w_name))
            /\ p.line.a = <<x, stem_y>>
            /\ p.line.b = <<x - side * kStemLength, stem_y>>
            /\ <<p.type.at[1], p.type.at[1] + w_type>> =
                   Interval(x - side * (kTextPadding + kStemLength),
                            x - side * (kTextPadding + kStemLength + w_type))

C8_Witness ==
    /\ call.op = "Pin.draw"
    /\ call.arg.direction = PinOUT
    /\ call.arg.name # "" /\ call.arg.type # ""
    /\ PaintedPin(1).name.at[1] < call.pos.x
    /\ PaintedPin(1).type.at[1] > call.pos.x

\* C9 as claimed: the k-th pin of a column is anchored at
\* y = rect.y + topBottomPadding + k*(Pin.height() + pinSpacing), the left
\* column at x = rect.x, the right column at x = rect.x + rect.width.
C9_AnchorsAsClaimed ==
    call.op = "Section.draw" =>
        LET section == call.arg
            nleft == Cardinality(Indices(section, {PinIN}))
            nright == Len(section) - nleft
            AnchorY(k) == call.pos.y + kTopBottomPadding + k * (PinHeight + kPinSpacing)
        IN  /\ \A k \in 1..nleft :
                   /\ PaintedPin(k).name.at[2] = AnchorY(k)
                   /\ PaintedPin(k).line.a[1] = call.pos.x
            /\ \A k \in 1..nright :
                   /\ PaintedPin(nleft + k).name.at[2] = AnchorY(k)
                   /\ PaintedPin(nleft + k).line.a[1] = call.pos.x + call.pos.width

\* C9 amended: the k-th pin of a column is anchored at
\* y = rect.y + topBottomPadding + k*Pin.height() + (k-1)*pinSpacing, the
\* left column at x = rect.x, the right column, which restarts from
\* rect.y + topBottomPadding, at x = rect.x + rect.width.
C9_Anchors ==
    call.op = "Section.draw" =>
        LET section == call.arg
            nleft == Cardinality(Indices(section, {PinIN}))
            nright == Len(section) - nleft
            AnchorY(k) == call.pos.y + kTopBottomPadding + k * PinHeight
                          + (k - 1) * kPinSpacing
        IN  /\ Len(Painted("name")) = Len(section)
            /\ \A k \in 1..nleft :
                   /\ PaintedPin(k).name.at[2] = AnchorY(k)
                   /\ PaintedPin(k).line.a[1] = call.pos.x
            /\ \A k \in 1..nright :
                   /\ PaintedPin(nleft + k).name.at[2] = AnchorY(k)
                   /\ PaintedPin(nleft + k).line.a[1] = call.pos.x + call.pos.width

C9_Witness ==
    /\ call.op = "Section.draw"
    /\ Cardinality(Indices(call.arg, {PinIN})) = 2
    /\ Cardinality(Indices(call.arg, {PinOUT, PinINOUT})) = 2
    /\ PinHeight > 0
    /\ PaintedPin(4).name.at[2] =
           call.pos.y + kTopBottomPadding + 2 * PinHeight + kPinSpacing

\* C10: minInnerWidth() = (largest innerWidth() of the IN pins, 0 without
\* one) + textSeparator + (largest innerWidth() of the OUT pins, 0 without
\* one); INOUT pins do not count.
C10_MinInnerWidth ==
    call.op = "Section.minInnerWidth" =>
        LET Widest(directions) ==
                MaxOf({ PinInnerWidth(call.arg[i]) : i \in Indices(call.arg, directions) }
                      \cup {0})
        IN  call.ret = Widest({PinIN}) + kTextSeparator + Widest({PinOUT})

C10_Witness ==
    /\ call.op = "Section.minInnerWidth"
    /\ \E i, j, k \in 1..Len(call.arg) :
           /\ call.arg[i].direction = PinINOUT
           /\ call.arg[j].direction = PinOUT
           /\ call.arg[k].direction = PinIN
           /\ i < j
           /\ PinInnerWidth(call.arg[i]) > PinInnerWidth(call.arg[j])
           /\ call.ret = PinInnerWidth(call.arg[k]) + kTextSeparator
                         + PinInnerWidth(call.arg[j])

====
